---------------------------- MODULE Spec2Model ----------------------------
(***************************************************************************)
(* ecs-logger: a logger that writes ECS (Elastic Common Schema) JSON       *)
(* lines.  The module models                                               *)
(*   - the Logger of src/src/logger.rs (filter, sink behind a Mutex),      *)
(*   - the extra-fields store of src/src/extra_fields.rs (an RwLock),      *)
(*   - the format function and the registration of src/src/lib.rs,         *)
(*   - the event document of src/src/ecs.rs.                               *)
(* Strings are sequences of symbols, JSON values are tagged records, and   *)
(* a JSON object is a function from its keys to JSON values.               *)
(***************************************************************************)
EXTENDS Integers, Sequences, FiniteSets, TLC

VARIABLES
    logger,     \* the Logger under test: [filter |-> directives]
    sink,       \* what the Logger's writer has received, one entry per write
    mutex,      \* the Mutex around the writer: [owner, poisoned]
    store,      \* EXTRA_FIELDS: None or Some(map)
    rw,         \* the RwLock around EXTRA_FIELDS: the threads holding it for reading
    now,        \* the wall clock read by Utc::now()
    ncalls,     \* number of calls started so far
    limit,      \* the number of calls a run may start
    pc,         \* per thread: where it is in its current call
    cur,        \* per thread: the call in progress
    returned,   \* the calls that have returned, with their result
    held,       \* every value the store has held (history)
    handler,    \* log crate: the installed global logger
    maxLevel,   \* log crate: the global maximum level
    platform    \* the target the crate is built for: "unix" or "windows"

vars == <<logger, sink, mutex, store, rw, now, ncalls, limit, pc, cur, returned,
          held, handler, maxLevel, platform>>

---------------------------------------------------------------------------
(* Bounds *)

NThreads == 2
MaxCalls == 2
MaxStoreCalls == 3
MaxEvents == 1
MaxClock == 2
MaxMerges == 1

Threads == 1..NThreads
NoThread == 0

---------------------------------------------------------------------------
(* Options and JSON values *)

None == [some |-> FALSE]
Some(x) == [some |-> TRUE, v |-> x]

JNull == [t |-> "null"]
JNum(n) == [t |-> "num", n |-> n]
JStr(s) == [t |-> "str", s |-> s]
JArr(a) == [t |-> "arr", a |-> a]
JObj(m) == [t |-> "obj", m |-> m]

IsObj(v) == v.t = "obj"

EmptyMap == <<>>

\* a struct field without the attribute: None is serialized as null
SkipIfNone_Null(k, o) == IF o.some THEN k :> o.v ELSE k :> JNull
\* a struct field carrying #[serde(skip_serializing_if = "Option::is_none")]
SkipIfNone(k, o) == IF o.some THEN k :> o.v ELSE EmptyMap

\* Option<u32> and Option<&str> fields as optional JSON values
OptNum(o) == IF o.some THEN Some(JNum(o.v)) ELSE None
OptStr(o) == IF o.some THEN Some(JStr(o.v)) ELSE None

---------------------------------------------------------------------------
(* Levels and the env_logger filter *)

Levels == {"ERROR", "WARN", "INFO", "DEBUG", "TRACE"}

LevelOrd == [OFF |-> 0, ERROR |-> 1, WARN |-> 2, INFO |-> 3, DEBUG |-> 4,
             TRACE |-> 5]

LevelFilterMax == "TRACE"

ParseLevel(tok) ==
    CASE tok = <<"off">>   -> Some("OFF")
      [] tok = <<"error">> -> Some("ERROR")
      [] tok = <<"warn">>  -> Some("WARN")
      [] tok = <<"info">>  -> Some("INFO")
      [] tok = <<"debug">> -> Some("DEBUG")
      [] tok = <<"trace">> -> Some("TRACE")
      [] OTHER             -> None

\* one comma-separated part of a filter string, already split at '='
ParsePart(part) ==
    IF Len(part) = 1
    THEN IF ParseLevel(part[1]).some
         THEN <<[name |-> None, level |-> ParseLevel(part[1]).v]>>
         ELSE <<[name |-> Some(part[1]), level |-> LevelFilterMax]>>
    ELSE IF Len(part) = 2
    THEN IF part[2] = <<>>
         THEN <<[name |-> Some(part[1]), level |-> LevelFilterMax]>>
         ELSE IF ParseLevel(part[2]).some
              THEN <<[name |-> Some(part[1]), level |-> ParseLevel(part[2]).v]>>
              ELSE <<>>
    ELSE <<>>

\* a later directive of the same name replaces the earlier one
InsertDirective(dirs, d) ==
    IF \E i \in 1..Len(dirs) : dirs[i].name = d.name
    THEN [i \in 1..Len(dirs) |-> IF dirs[i].name = d.name THEN d ELSE dirs[i]]
    ELSE Append(dirs, d)

RECURSIVE ParseSpec(_, _)
ParseSpec(parts, dirs) ==
    IF parts = <<>> THEN dirs
    ELSE LET ds == IF Head(parts) = <<>> THEN <<>> ELSE ParsePart(Head(parts))
         IN  ParseSpec(Tail(parts),
                       IF ds = <<>> THEN dirs ELSE InsertDirective(dirs, ds[1]))

NameLen(d) == IF d.name.some THEN Len(d.name.v) ELSE 0

\* stable insertion of d into a sequence sorted by name length
RECURSIVE InsertSorted(_, _)
InsertSorted(sorted, d) ==
    IF sorted = <<>> THEN <<d>>
    ELSE IF NameLen(sorted[Len(sorted)]) <= NameLen(d)
         THEN Append(sorted, d)
         ELSE Append(InsertSorted(SubSeq(sorted, 1, Len(sorted) - 1), d),
                     sorted[Len(sorted)])

RECURSIVE SortDirectives(_, _)
SortDirectives(dirs, acc) ==
    IF dirs = <<>> THEN acc
    ELSE SortDirectives(Tail(dirs), InsertSorted(acc, Head(dirs)))

FilterBuild(dirs) ==
    IF dirs = <<>>
    THEN <<[name |-> None, level |-> "ERROR"]>>
    ELSE SortDirectives(dirs, <<>>)

StartsWith(s, p) == Len(p) <= Len(s) /\ SubSeq(s, 1, Len(p)) = p

\* the last directive (longest name first) whose name prefixes the target decides
RECURSIVE Enabled(_, _, _)
Enabled(dirs, level, target) ==
    IF dirs = <<>> THEN FALSE
    ELSE LET d == dirs[Len(dirs)]
         IN  IF d.name.some /\ ~StartsWith(target, d.name.v)
             THEN Enabled(SubSeq(dirs, 1, Len(dirs) - 1), level, target)
             ELSE LevelOrd[level] <= LevelOrd[d.level]

FilterMatches(dirs, record) == Enabled(dirs, record.level, record.target)

RECURSIVE FilterMaxLevel(_)
FilterMaxLevel(dirs) ==
    IF dirs = <<>> THEN "OFF"
    ELSE LET m == FilterMaxLevel(Tail(dirs))
         IN  IF LevelOrd[Head(dirs).level] > LevelOrd[m]
             THEN Head(dirs).level ELSE m

---------------------------------------------------------------------------
(* Filter strings, split at ',' and '=' *)

DefaultFilterStr == << <<<<"error">>>> >>

FilterStrs ==
    { DefaultFilterStr,
      << <<<<"trace">>>> >>,
      << <<<<"info">>>>, <<<<"my_app">>, <<"debug">>>> >>,
      << <<<<"off">>>> >>,
      << <<>> >> }


---------------------------------------------------------------------------
(* Records handed over by the log macros *)

Targets == { <<"example">>, <<"my_app", "::", "server">> }

ExampleRecord(level, target) ==
    [level |-> level, target |-> target, args |-> <<"hello world">>,
     file |-> Some(<<"tests", "/", "example.rs">>), line |-> Some(13),
     module_path |-> Some(<<"example", "::", "tests">>)]

Records == { ExampleRecord(l, tg) : l \in Levels, tg \in Targets }

---------------------------------------------------------------------------
(* The event document, src/src/ecs.rs *)

ECS_VERSION == <<"1.12.1">>

\* RFC 3339 rendering of the instant n
JTime(n) == [t |-> "time", n |-> n]

IsSeparator(c, plat) == c = "/" \/ (plat = "windows" /\ c = "\\")

RECURSIVE StripTrailingSeps(_, _)
StripTrailingSeps(path, plat) ==
    IF path # <<>> /\ IsSeparator(path[Len(path)], plat)
    THEN StripTrailingSeps(SubSeq(path, 1, Len(path) - 1), plat)
    ELSE path

RECURSIVE LastComponent(_, _)
LastComponent(path, plat) ==
    IF path = <<>> \/ IsSeparator(path[Len(path)], plat) THEN <<>>
    ELSE Append(LastComponent(SubSeq(path, 1, Len(path) - 1), plat),
                path[Len(path)])

\* std::path::Path::file_name
PathFileName(path, plat) ==
    LET last == LastComponent(StripTrailingSeps(path, plat), plat)
    IN  IF last = <<>> \/ last = <<"..">> THEN None ELSE Some(last)

FromLogRecord(record, clock, plat) ==
    [timestamp   |-> clock,
     log_level   |-> record.level,
     message     |-> record.args,
     ecs_version |-> ECS_VERSION,
     log_origin  |->
        [file |-> [line |-> record.line,
                   name |-> IF record.file.some
                            THEN PathFileName(record.file.v, plat)
                            ELSE None],
         rust |-> [target      |-> record.target,
                   module_path |-> record.module_path,
                   file_path   |-> record.file]]]

\* #[derive(Serialize)] of Event and its parts, as a JSON object
SerializeEvent(e) ==
    JObj(  ("@timestamp"  :> JTime(e.timestamp))
        @@ ("log.level"   :> JStr(<<e.log_level>>))
        @@ ("message"     :> JStr(e.message))
        @@ ("ecs.version" :> JStr(e.ecs_version))
        @@ ("log.origin"  :>
              JObj(  ("file" :>
                        JObj(   SkipIfNone("line", OptNum(e.log_origin.file.line))
                             @@ SkipIfNone("name", OptStr(e.log_origin.file.name))))
                  @@ ("rust" :>
                        JObj(   ("target" :> JStr(e.log_origin.rust.target))
                             @@ SkipIfNone("module_path",
                                           OptStr(e.log_origin.rust.module_path))
                             @@ SkipIfNone("file_path",
                                           OptStr(e.log_origin.rust.file_path)))))))

---------------------------------------------------------------------------
(* The Logger, src/src/logger.rs *)

\* a Builder whose default filter is "info"
BuilderDefault_Info == [filter |-> << <<<<"info">>>> >>]

BuilderDefault == [filter |-> DefaultFilterStr]

BuilderFilter(b, f) == [b EXCEPT !.filter = f]

BuilderBuild(b) == [filter |-> FilterBuild(ParseSpec(b.filter, <<>>))]

Builders == {BuilderDefault} \cup {BuilderFilter(BuilderDefault, f) : f \in FilterStrs}

NoCall == [op |-> "none"]

MutexFree == [owner |-> NoThread, poisoned |-> FALSE]

\* the pieces serde_json::to_writer and writeln! hand to the writer, in order
Chunk(c, part) == [call |-> c.id, part |-> part, doc |-> c.doc]

\* a writer that puts each write in front of what it holds
WriterWrite_Prepends(s, ch) == <<ch>> \o s
\* io::Write::write of the sink: the bytes are forwarded in order
WriterWrite(s, ch) == Append(s, ch)

Return(c, result) == [id |-> c.id, op |-> c.op, arg |-> c.arg, result |-> result]

\* the return of a call that wrote its line, with the thread that wrote it
ReturnWritten(c) ==
    [id |-> c.id, op |-> c.op, arg |-> c.arg, result |-> "written", by |-> c.by]

\* a failed write that is ignored: the call returns as if it had written
PanicHolding_Swallows(t) ==
    /\ mutex' = [owner |-> NoThread, poisoned |-> FALSE]
    /\ pc' = [pc EXCEPT ![t] = "idle"]
    /\ returned' = returned \cup {ReturnWritten(cur[t])}
    /\ cur' = [cur EXCEPT ![t] = NoCall]
\* a panic unwinding through a held MutexGuard poisons the mutex and unlocks it
PanicHolding(t) ==
    /\ mutex' = [owner |-> NoThread, poisoned |-> TRUE]
    /\ pc' = [pc EXCEPT ![t] = "panicked"]
    /\ returned' = returned \cup {Return(cur[t], "panic")}
    /\ cur' = [cur EXCEPT ![t] = NoCall]

\* a Logger::log without its filter check
LogMatches_Always(lg, record) == TRUE

\* the guard of Logger::log: self.filter.matches(record)
LogMatches(lg, record) == FilterMatches(lg.filter, record)

\* a writer shared without mutual exclusion
CanLock_Always(m) == TRUE

\* Mutex::lock returns once no other thread holds the guard
CanLock(m) == m.owner = NoThread

\* Logger::log up to the lock: the filter check and the event
LoggerLog(t, record) ==
    /\ pc[t] = "idle"
    /\ ncalls < limit
    /\ ncalls' = ncalls + 1
    /\ LET c == [op |-> "log", id |-> ncalls + 1, by |-> t, arg |-> record,
                 doc |-> SerializeEvent(FromLogRecord(record, now, platform))]
       IN  IF ~LogMatches(logger, record)
           THEN /\ returned' = returned \cup {Return(c, "filtered")}
                /\ UNCHANGED <<pc, cur>>
           ELSE /\ pc' = [pc EXCEPT ![t] = "lock"]
                /\ cur' = [cur EXCEPT ![t] = c]
                /\ UNCHANGED returned
    /\ UNCHANGED <<logger, sink, mutex, store, rw, now, limit, held, handler,
                   maxLevel, platform>>

\* a lock that takes the guard out of a poisoned mutex and goes on
LoggerLock_IgnoresPoison(t) ==
    /\ pc[t] = "lock"
    /\ CanLock(mutex)
    /\ mutex' = [mutex EXCEPT !.owner = t]
    /\ pc' = [pc EXCEPT ![t] = "head"]
    /\ UNCHANGED <<returned, cur>>
    /\ UNCHANGED <<logger, sink, store, rw, now, ncalls, limit, held, handler,
                   maxLevel, platform>>
\* self.writer.lock().expect(..)
LoggerLock(t) ==
    /\ pc[t] = "lock"
    /\ CanLock(mutex)
    /\ IF mutex.poisoned
       THEN /\ pc' = [pc EXCEPT ![t] = "panicked"]
            /\ returned' = returned \cup {Return(cur[t], "panic")}
            /\ cur' = [cur EXCEPT ![t] = NoCall]
            /\ UNCHANGED mutex
       ELSE /\ mutex' = [mutex EXCEPT !.owner = t]
            /\ pc' = [pc EXCEPT ![t] = "head"]
            /\ UNCHANGED <<returned, cur>>
    /\ UNCHANGED <<logger, sink, store, rw, now, ncalls, limit, held, handler,
                   maxLevel, platform>>

\* serde_json::to_writer(..).expect(..): the body goes out in two writes
LoggerWriteBody(t, ok) ==
    /\ pc[t] \in {"head", "tail"}
    /\ IF ok
       THEN /\ sink' = WriterWrite(sink, Chunk(cur[t], pc[t]))
            /\ pc' = [pc EXCEPT ![t] = IF pc[t] = "head" THEN "tail" ELSE "nl"]
            /\ UNCHANGED <<mutex, returned, cur>>
       ELSE /\ PanicHolding(t)
            /\ UNCHANGED sink
    /\ UNCHANGED <<logger, store, rw, now, ncalls, limit, held, handler, maxLevel,
                   platform>>

\* writeln!(writer).expect(..), then the guard is dropped
LoggerWriteNl(t, ok) ==
    /\ pc[t] = "nl"
    /\ IF ok
       THEN /\ sink' = WriterWrite(sink, Chunk(cur[t], "nl"))
            /\ mutex' = [mutex EXCEPT !.owner = NoThread]
            /\ pc' = [pc EXCEPT ![t] = "idle"]
            /\ returned' = returned \cup {ReturnWritten(cur[t])}
            /\ cur' = [cur EXCEPT ![t] = NoCall]
       ELSE /\ PanicHolding(t)
            /\ UNCHANGED sink
    /\ UNCHANGED <<logger, store, rw, now, ncalls, limit, held, handler, maxLevel,
                   platform>>


---------------------------------------------------------------------------
(* The extra-fields store, src/src/extra_fields.rs *)

\* values handed to set_extra_fields (impl serde::Serialize)
RJson(v) == [ty |-> "json", v |-> v]
RU32(n) == [ty |-> "u32", n |-> n]
RVec(es) == [ty |-> "vec", es |-> es]
RUnit == [ty |-> "unit"]
RStruct(fs) == [ty |-> "struct", fs |-> fs]
RBadMap == [ty |-> "map_with_non_string_key"]

Ok(v) == [ok |-> TRUE, v |-> v]
Err(e) == [ok |-> FALSE, e |-> e]

\* serde_json::to_value
RECURSIVE ToValue(_)
ToValue(x) ==
    CASE x.ty = "json"   -> Ok(x.v)
      [] x.ty = "u32"    -> Ok(JNum(x.n))
      [] x.ty = "unit"   -> Ok(JNull)
      [] x.ty = "vec"    ->
            IF \E i \in 1..Len(x.es) : ~ToValue(x.es[i]).ok
            THEN Err("key must be a string")
            ELSE Ok(JArr([i \in 1..Len(x.es) |-> ToValue(x.es[i]).v]))
      [] x.ty = "struct" ->
            IF \E i \in 1..Len(x.fs) : ~ToValue(x.fs[i][2]).ok
            THEN Err("key must be a string")
            ELSE Ok(JObj([k \in {x.fs[i][1] : i \in 1..Len(x.fs)} |->
                            ToValue(x.fs[CHOOSE i \in 1..Len(x.fs) :
                                            x.fs[i][1] = k][2]).v]))
      [] OTHER           -> Err("key must be a string")

DocA == RJson(JObj(("a" :> JNum(1)) @@ ("b" :> JObj("c" :> JNum(2)))))
DocB == RStruct(<< <<"b", RStruct(<< <<"d", RU32(3)>> >>)>>, <<"e", RU32(4)>> >>)

ExtraInputs == {DocA, DocB, RVec(<<RU32(1)>>), RU32(1), RUnit, RBadMap}

\* extra fields under the keys of the event itself
DocStd ==
    RJson(JObj(   ("@timestamp" :> JStr(<<"never">>))
               @@ ("log.level" :> JStr(<<"LOUD">>))
               @@ ("message" :> JStr(<<"overridden">>))
               @@ ("ecs.version" :> JNum(0))
               @@ ("log.origin" :>
                     JObj(   ("file" :> JObj("line" :> JNum(7)))
                          @@ ("host" :> JStr(<<"h1">>))))))

\* the values set while the Logger of logger.rs is exercised
LoggerExtraInputs == {DocA, RUnit}

RECURSIVE ExtendJsonMap(_, _)

\* a set_extra_fields that stores None for a value that is no object
SetExtraFieldsOutcome_ClearsOnError(st, x) ==
    LET v == ToValue(x)
    IN  IF ~v.ok THEN [result |-> "InvalidJson", store |-> st]
        ELSE IF ~IsObj(v.v) THEN [result |-> "NotObject", store |-> None]
        ELSE [result |-> "Ok", store |-> Some(v.v.m)]

\* a set_extra_fields that merges the value into the stored document
SetExtraFieldsOutcome_Merges(st, x) ==
    LET v == ToValue(x)
    IN  IF ~v.ok THEN [result |-> "InvalidJson", store |-> st]
        ELSE IF ~IsObj(v.v) THEN [result |-> "NotObject", store |-> st]
        ELSE [result |-> "Ok",
              store |-> IF st.some THEN Some(ExtendJsonMap(st.v, v.v.m))
                        ELSE Some(v.v.m)]

\* set_extra_fields: the result and the store it leaves
SetExtraFieldsOutcome(st, x) ==
    LET v == ToValue(x)
    IN  IF ~v.ok THEN [result |-> "InvalidJson", store |-> st]
        ELSE IF ~IsObj(v.v) THEN [result |-> "NotObject", store |-> st]
        ELSE [result |-> "Ok", store |-> Some(v.v.m)]

\* a clear_extra_fields that leaves the store alone
ClearExtraFieldsOutcome_Keeps(st) == st

\* clear_extra_fields
ClearExtraFieldsOutcome(st) == None

\* a store written without waiting for its readers
CanWrite_Always(readers) == TRUE

\* RwLock::write is granted when nobody holds the lock
CanWrite(readers) == readers = {}

RECURSIVE ExtendFrom(_, _, _)

\* an iteration that keeps the value the map already has
ExtendKey_KeepsBase(a, k, v) ==
    IF k \in DOMAIN a
    THEN IF IsObj(a[k]) /\ IsObj(v)
         THEN [a EXCEPT ![k] = JObj(ExtendJsonMap(a[k].m, v.m))]
         ELSE a
    ELSE a @@ (k :> v)
\* an iteration that does not recurse into objects
ExtendKey_ReplacesObjects(a, k, v) ==
    IF k \in DOMAIN a THEN [a EXCEPT ![k] = v] ELSE a @@ (k :> v)
\* an iteration that concatenates arrays
ExtendKey_ConcatArrays(a, k, v) ==
    IF k \in DOMAIN a
    THEN IF IsObj(a[k]) /\ IsObj(v)
         THEN [a EXCEPT ![k] = JObj(ExtendJsonMap(a[k].m, v.m))]
         ELSE IF a[k].t = "arr" /\ v.t = "arr"
              THEN [a EXCEPT ![k] = JArr(a[k].a \o v.a)]
              ELSE [a EXCEPT ![k] = v]
    ELSE a @@ (k :> v)
\* one iteration of the loop of extend_json_map
ExtendKey(a, k, v) ==
    IF k \in DOMAIN a
    THEN IF IsObj(a[k]) /\ IsObj(v)
         THEN [a EXCEPT ![k] = JObj(ExtendJsonMap(a[k].m, v.m))]
         ELSE [a EXCEPT ![k] = v]
    ELSE a @@ (k :> v)

NextKey(keys) == CHOOSE k \in keys : TRUE

ExtendFrom(a, b, keys) ==
    IF keys = {} THEN a
    ELSE ExtendFrom(ExtendKey(a, NextKey(keys), b[NextKey(keys)]), b,
                    keys \ {NextKey(keys)})

\* a merge that keeps only the keys of b
ExtendJsonMap_DropsBaseOnly(a, b) ==
    [k \in DOMAIN b |-> ExtendFrom(a, b, DOMAIN b)[k]]
\* extend_json_map: deep merge b into a
ExtendJsonMap(a, b) == ExtendFrom(a, b, DOMAIN b)

\* merge_extra_fields on a store that does not change meanwhile
MergeExtraFields(st, json_map) ==
    IF st.some THEN ExtendJsonMap(json_map, st.v) ELSE json_map

SetExtraFields(t, x) ==
    /\ pc[t] = "idle"
    /\ ncalls < limit
    /\ ncalls' = ncalls + 1
    /\ LET o == SetExtraFieldsOutcome(store, x)
       IN  /\ o.result = "Ok" => CanWrite(rw)
           /\ store' = o.store
           /\ held' = held \cup {o.store}
           /\ returned' = returned \cup
                 {Return([op |-> "set", id |-> ncalls + 1, arg |-> x], o.result)}
    /\ UNCHANGED <<logger, sink, mutex, rw, now, limit, pc, cur, handler, maxLevel,
                   platform>>

ClearExtraFields(t) ==
    /\ pc[t] = "idle"
    /\ ncalls < limit
    /\ ncalls' = ncalls + 1
    /\ CanWrite(rw)
    /\ store' = ClearExtraFieldsOutcome(store)
    /\ held' = held \cup {store'}
    /\ returned' = returned \cup
          {Return([op |-> "clear", id |-> ncalls + 1, arg |-> RUnit], "Ok")}
    /\ UNCHANGED <<logger, sink, mutex, rw, now, limit, pc, cur, handler, maxLevel,
                   platform>>

---------------------------------------------------------------------------
(* format, src/src/lib.rs *)

\* Event::new(timestamp, record): the event of a record at a given instant
EventNew(timestamp, record, plat) == FromLogRecord(record, timestamp, plat)

\* timestamp::get_timestamp
GetTimestamp(clock) == clock

FormatRecords == { ExampleRecord("ERROR", <<"example">>) }

\* RwLock::read is granted unless a writer holds the lock; writers hold it
\* only within one step
CanRead(readers) == TRUE

\* format up to merge_extra_fields: the event as a JSON map
FormatCall(t, record) ==
    /\ pc[t] = "idle"
    /\ ncalls < limit
    /\ ncalls' = ncalls + 1
    /\ LET base == SerializeEvent(EventNew(GetTimestamp(now), record, platform)).m
       IN  cur' = [cur EXCEPT ![t] =
                     [op |-> "format", id |-> ncalls + 1, by |-> t, arg |-> record,
                      base |-> base, doc |-> base, todo |-> {}]]
    /\ pc' = [pc EXCEPT ![t] = "merge"]
    /\ UNCHANGED <<logger, sink, mutex, store, rw, now, limit, returned, held,
                   handler, maxLevel, platform>>

\* merge_extra_fields: EXTRA_FIELDS.read(), and the match on the Option
FormatMergeLock(t) ==
    /\ pc[t] = "merge"
    /\ CanRead(rw)
    /\ IF store.some /\ DOMAIN store.v # {}
       THEN /\ rw' = rw \cup {t}
            /\ cur' = [cur EXCEPT ![t].todo = DOMAIN store.v]
            /\ pc' = [pc EXCEPT ![t] = "extend"]
       ELSE /\ pc' = [pc EXCEPT ![t] = "write"]
            /\ UNCHANGED <<rw, cur>>
    /\ UNCHANGED <<logger, sink, mutex, store, now, ncalls, limit, returned,
                   held, handler, maxLevel, platform>>

\* one iteration of extend_json_map on the stored map; the read guard is
\* dropped when merge_extra_fields returns
FormatExtend(t) ==
    /\ pc[t] = "extend"
    /\ LET k == NextKey(cur[t].todo)
           d == IF store.some /\ k \in DOMAIN store.v
                THEN ExtendKey(cur[t].doc, k, store.v[k])
                ELSE cur[t].doc
           rest == cur[t].todo \ {k}
       IN  /\ cur' = [cur EXCEPT ![t].doc = d, ![t].todo = rest]
           /\ IF rest = {}
              THEN /\ rw' = rw \ {t}
                   /\ pc' = [pc EXCEPT ![t] = "write"]
              ELSE UNCHANGED <<rw, pc>>
    /\ UNCHANGED <<logger, sink, mutex, store, now, ncalls, limit, returned,
                   held, handler, maxLevel, platform>>

\* what buf holds after to_writer and writeln!, each of which may fail
FormatBuf(c, okBody, okNl) ==
    IF ~okBody THEN <<>>
    ELSE IF ~okNl THEN <<[call |-> c.id, part |-> "body", doc |-> JObj(c.doc)]>>
    ELSE <<[call |-> c.id, part |-> "body", doc |-> JObj(c.doc)],
           [call |-> c.id, part |-> "nl", doc |-> JObj(c.doc)]>>

\* serde_json::to_writer(buf, ..)?; writeln!(buf)?; Ok(())
FormatWrite(t, okBody, okNl) ==
    /\ pc[t] = "write"
    /\ returned' = returned \cup
          {[id |-> cur[t].id, op |-> "format", arg |-> cur[t].arg,
            result |-> IF okBody /\ okNl THEN "Ok" ELSE "Err",
            base |-> cur[t].base, out |-> FormatBuf(cur[t], okBody, okNl),
            at |-> ncalls]}
    /\ pc' = [pc EXCEPT ![t] = "idle"]
    /\ cur' = [cur EXCEPT ![t] = NoCall]
    /\ UNCHANGED <<logger, sink, mutex, store, rw, now, ncalls, limit, held,
                   handler, maxLevel, platform>>

---------------------------------------------------------------------------
(* Registration with the log crate: Logger::try_init and ecs_logger::try_init *)

\* a set_boxed_logger that installs every logger it is given
SetBoxedLogger_Replaces(h, lg) == [result |-> "Ok", handler |-> Some(lg)]

\* log::set_boxed_logger: only the first call installs its logger
SetBoxedLogger(h, lg) ==
    IF h.some THEN [result |-> "Err", handler |-> h]
    ELSE [result |-> "Ok", handler |-> Some(lg)]

\* the log macros: a call reaches the installed logger when its level passes
\* log::max_level(), and the logger writes it when its filter matches
Emits(h, ml, record) ==
    /\ h.some
    /\ LevelOrd[record.level] <= LevelOrd[ml]
    /\ FilterMatches(h.v.filter, record)

\* RUST_LOG, read by env_logger::builder()
EnvValues == {None} \cup {Some(f) : f \in FilterStrs}

EnvLoggerBuild(env) ==
    [filter |-> FilterBuild(IF env.some THEN ParseSpec(env.v, <<>>) ELSE <<>>)]

\* Logger::try_init, first statement: log::set_max_level(self.filter.filter())
LoggerTryInit(t, b) ==
    /\ pc[t] = "idle"
    /\ ncalls < limit
    /\ ncalls' = ncalls + 1
    /\ maxLevel' = FilterMaxLevel(BuilderBuild(b).filter)
    /\ cur' = [cur EXCEPT ![t] =
                 [op |-> "Logger::try_init", id |-> ncalls + 1, by |-> t,
                  arg |-> b,
                  lg |-> [kind |-> "Logger", id |-> ncalls + 1,
                          filter |-> BuilderBuild(b).filter]]]
    /\ pc' = [pc EXCEPT ![t] = "set_logger"]
    /\ UNCHANGED <<logger, sink, mutex, store, rw, now, limit, returned, held,
                   handler, platform>>

\* Logger::try_init, second statement: log::set_boxed_logger(Box::new(self))
LoggerSetBoxed(t) ==
    /\ pc[t] = "set_logger"
    /\ LET o == SetBoxedLogger(handler, cur[t].lg)
       IN  /\ handler' = o.handler
           /\ returned' = returned \cup {Return(cur[t], o.result)}
    /\ pc' = [pc EXCEPT ![t] = "idle"]
    /\ cur' = [cur EXCEPT ![t] = NoCall]
    /\ UNCHANGED <<logger, sink, mutex, store, rw, now, ncalls, limit, held,
                   maxLevel, platform>>

\* ecs_logger::try_init: env_logger's try_init registers its logger first
EnvTryInit(t, env) ==
    /\ pc[t] = "idle"
    /\ ncalls < limit
    /\ ncalls' = ncalls + 1
    /\ LET c == [op |-> "try_init", id |-> ncalls + 1, by |-> t, arg |-> env,
                 lg |-> [kind |-> "env_logger", id |-> ncalls + 1,
                         filter |-> EnvLoggerBuild(env).filter]]
           o == SetBoxedLogger(handler, c.lg)
       IN  /\ handler' = o.handler
           /\ IF o.result = "Ok"
              THEN /\ cur' = [cur EXCEPT ![t] = c]
                   /\ pc' = [pc EXCEPT ![t] = "env_set_max"]
                   /\ UNCHANGED returned
              ELSE /\ returned' = returned \cup {Return(c, "Err")}
                   /\ UNCHANGED <<pc, cur>>
    /\ UNCHANGED <<logger, sink, mutex, store, rw, now, limit, held, maxLevel,
                   platform>>

\* ... and sets the maximum level only when that succeeded
EnvSetMax(t) ==
    /\ pc[t] = "env_set_max"
    /\ maxLevel' = FilterMaxLevel(cur[t].lg.filter)
    /\ returned' = returned \cup {Return(cur[t], "Ok")}
    /\ pc' = [pc EXCEPT ![t] = "idle"]
    /\ cur' = [cur EXCEPT ![t] = NoCall]
    /\ UNCHANGED <<logger, sink, mutex, store, rw, now, ncalls, limit, held,
                   handler, platform>>

---------------------------------------------------------------------------
(* The initial state and the specifications *)

InitCommon ==
    /\ sink = <<>>
    /\ mutex = MutexFree
    /\ store = None
    /\ rw = {}
    /\ now = 0
    /\ ncalls = 0
    /\ pc = [t \in Threads |-> "idle"]
    /\ cur = [t \in Threads |-> NoCall]
    /\ returned = {}
    /\ held = {None}
    /\ handler = None
    /\ maxLevel = "OFF"
    /\ platform = "unix"

\* threads logging through one Logger, and setting the extra fields
Init ==
    /\ InitCommon
    /\ logger \in {BuilderBuild(b) : b \in Builders}
    /\ limit = MaxCalls

Next ==
    \/ \E t \in Threads, r \in Records : LoggerLog(t, r)
    \/ \E t \in Threads : LoggerLock(t)
    \/ \E t \in Threads, ok \in BOOLEAN : LoggerWriteBody(t, ok)
    \/ \E t \in Threads, ok \in BOOLEAN : LoggerWriteNl(t, ok)
    \/ \E t \in Threads, x \in LoggerExtraInputs : SetExtraFields(t, x)
    \/ \E t \in Threads : ClearExtraFields(t)

Spec == Init /\ [][Next]_vars

\* threads formatting events, and setting and clearing the extra fields
InitFormat ==
    /\ InitCommon
    /\ logger = BuilderBuild(BuilderDefault)
    /\ limit = MaxStoreCalls

NextFormat ==
    \/ \E t \in Threads, r \in FormatRecords : FormatCall(t, r)
    \/ \E t \in Threads : FormatMergeLock(t)
    \/ \E t \in Threads : FormatExtend(t)
    \/ \E t \in Threads, okBody \in BOOLEAN, okNl \in BOOLEAN :
          FormatWrite(t, okBody, okNl)
    \/ \E t \in Threads, x \in ExtraInputs : SetExtraFields(t, x)
    \/ \E t \in Threads : ClearExtraFields(t)

SpecFormat == InitFormat /\ [][NextFormat]_vars

\* threads logging through one Logger and formatting events, with writes
\* that may fail
InitFailure ==
    /\ InitCommon
    /\ logger = BuilderBuild(BuilderDefault)
    /\ limit = MaxCalls

NextFailure ==
    \/ \E t \in Threads, r \in Records : LoggerLog(t, r)
    \/ \E t \in Threads : LoggerLock(t)
    \/ \E t \in Threads, ok \in BOOLEAN : LoggerWriteBody(t, ok)
    \/ \E t \in Threads, ok \in BOOLEAN : LoggerWriteNl(t, ok)
    \/ \E t \in Threads, r \in FormatRecords : FormatCall(t, r)
    \/ \E t \in Threads : FormatMergeLock(t)
    \/ \E t \in Threads : FormatExtend(t)
    \/ \E t \in Threads, okBody \in BOOLEAN, okNl \in BOOLEAN :
          FormatWrite(t, okBody, okNl)
    \/ \E t \in Threads, x \in {DocA, DocStd} : SetExtraFields(t, x)

SpecFailure == InitFailure /\ [][NextFailure]_vars

---------------------------------------------------------------------------
(* Building and serializing events, src/src/ecs.rs *)

\* the source locations a log::Record may carry
EventFiles ==
    { None, Some(<<"src", "/", "server.rs">>), Some(<<"src", "\\", "server.rs">>),
      Some(<<"main.rs">>), Some(<<"src", "/", "path", "/", "file.rs">>) }

EventRecords ==
    { [level |-> l, target |-> <<"myApp">>, args |-> <<"Error!">>, file |-> f,
       line |-> ln, module_path |-> mp] :
         l \in {"ERROR", "TRACE"}, f \in EventFiles, ln \in {None, Some(144)},
         mp \in {None, Some(<<"my_app", "::", "server">>)} }

\* the system clock moves on
ClockTick ==
    /\ now < MaxClock
    /\ now' = now + 1
    /\ UNCHANGED <<logger, sink, mutex, store, rw, ncalls, limit, pc, cur,
                   returned, held, handler, maxLevel, platform>>

\* Event::from_log_record(&record)
EventFromLogRecord(t, record) ==
    /\ pc[t] = "idle"
    /\ ncalls < limit
    /\ ncalls' = ncalls + 1
    /\ cur' = [cur EXCEPT ![t] =
                 [op |-> "event", id |-> ncalls + 1, arg |-> record, at |-> now,
                  ev |-> FromLogRecord(record, now, platform)]]
    /\ pc' = [pc EXCEPT ![t] = "serialize"]
    /\ UNCHANGED <<logger, sink, mutex, store, rw, now, limit, returned, held,
                   handler, maxLevel, platform>>

\* serde_json::to_string(&event)
EventToString(t) ==
    /\ pc[t] = "serialize"
    /\ returned' = returned \cup
          {[id |-> cur[t].id, op |-> "event", arg |-> cur[t].arg,
            at |-> cur[t].at, ev |-> cur[t].ev, doc |-> SerializeEvent(cur[t].ev)]}
    /\ pc' = [pc EXCEPT ![t] = "idle"]
    /\ cur' = [cur EXCEPT ![t] = NoCall]
    /\ UNCHANGED <<logger, sink, mutex, store, rw, now, ncalls, limit, held,
                   handler, maxLevel, platform>>

\* threads building events from records and serializing them, on either
\* family of platforms
InitEvent ==
    /\ sink = <<>>
    /\ mutex = MutexFree
    /\ store = None
    /\ rw = {}
    /\ now = 0
    /\ ncalls = 0
    /\ pc = [t \in Threads |-> "idle"]
    /\ cur = [t \in Threads |-> NoCall]
    /\ returned = {}
    /\ held = {None}
    /\ handler = None
    /\ maxLevel = "OFF"
    /\ platform \in {"unix", "windows"}
    /\ logger = BuilderBuild(BuilderDefault)
    /\ limit = MaxEvents

NextEvent ==
    \/ ClockTick
    \/ \E t \in Threads, r \in EventRecords : EventFromLogRecord(t, r)
    \/ \E t \in Threads : EventToString(t)

SpecEvent == InitEvent /\ [][NextEvent]_vars

---------------------------------------------------------------------------
(* The deep merge as a function, src/src/extra_fields.rs *)

\* JSON maps to merge: scalars, nulls, arrays and objects nested up to three
\* levels, sharing keys with values of the same and of different kinds
MergeDocs ==
    { ("a" :> JNum(1)) @@ ("b" :> JObj("c" :> JNum(2))),
      ("b" :> JObj("d" :> JNum(3))) @@ ("e" :> JNum(4)),
      ("a" :> JArr(<<JNum(1)>>)) @@ ("b" :> JNum(5)) @@ ("f" :> JNull),
      ("a" :> JObj("x" :> JNum(1))) @@ ("b" :> JObj("c" :> JObj("y" :> JNum(1)))),
      "b" :> JObj(("c" :> JObj("z" :> JNum(2))) @@ ("d" :> JNull)),
      EmptyMap,
      ("a" :> JArr(<<JNum(2), JNum(3)>>)) @@ ("b" :> JObj("c" :> JNum(2))),
      ("message" :> JStr(<<"x">>)) @@
         ("log.origin" :> JObj("file" :> JObj("line" :> JNum(7)))),
      SerializeEvent(FromLogRecord(ExampleRecord("ERROR", <<"example">>), 0,
                                   "unix")).m }

\* merge_extra_fields(json_map)
MergeInto(t, json_map) ==
    /\ pc[t] = "idle"
    /\ ncalls < limit
    /\ ncalls' = ncalls + 1
    /\ cur' = [cur EXCEPT ![t] =
                 [op |-> "merge", id |-> ncalls + 1, base |-> json_map,
                  out |-> MergeExtraFields(store, json_map)]]
    /\ pc' = [pc EXCEPT ![t] = "merged"]
    /\ UNCHANGED <<logger, sink, mutex, store, rw, now, limit, returned, held,
                   handler, maxLevel, platform>>

\* merge_extra_fields on the map the first call returned
MergeIntoAgain(t) ==
    /\ pc[t] = "merged"
    /\ returned' = returned \cup
          {[id |-> cur[t].id, op |-> "merge", base |-> cur[t].base,
            overlay |-> store, out |-> cur[t].out,
            again |-> MergeExtraFields(store, cur[t].out)]}
    /\ pc' = [pc EXCEPT ![t] = "idle"]
    /\ cur' = [cur EXCEPT ![t] = NoCall]
    /\ UNCHANGED <<logger, sink, mutex, store, rw, now, ncalls, limit, held,
                   handler, maxLevel, platform>>

\* threads merging a fixed store into documents
InitMerge ==
    /\ sink = <<>>
    /\ mutex = MutexFree
    /\ store \in {None} \cup {Some(d) : d \in MergeDocs}
    /\ rw = {}
    /\ now = 0
    /\ ncalls = 0
    /\ pc = [t \in Threads |-> "idle"]
    /\ cur = [t \in Threads |-> NoCall]
    /\ returned = {}
    /\ held = {store}
    /\ handler = None
    /\ maxLevel = "OFF"
    /\ platform = "unix"
    /\ logger = BuilderBuild(BuilderDefault)
    /\ limit = MaxMerges

NextMerge ==
    \/ \E t \in Threads, d \in MergeDocs : MergeInto(t, d)
    \/ \E t \in Threads : MergeIntoAgain(t)

SpecMerge == InitMerge /\ [][NextMerge]_vars

\* threads registering loggers with the log crate
InitRegister ==
    /\ InitCommon
    /\ logger = BuilderBuild(BuilderDefault)
    /\ limit = MaxCalls

NextRegister ==
    \/ \E t \in Threads, b \in Builders : LoggerTryInit(t, b)
    \/ \E t \in Threads : LoggerSetBoxed(t)
    \/ \E t \in Threads, env \in EnvValues : EnvTryInit(t, env)
    \/ \E t \in Threads : EnvSetMax(t)

SpecRegister == InitRegister /\ [][NextRegister]_vars

---------------------------------------------------------------------------
(* Properties of the Logger's sink *)

Writing(t) == pc[t] \in {"head", "tail", "nl"}

Fresh == returned' \ returned

\* the document Logger::log serializes for a returned call
DocOf(c) == SerializeEvent(FromLogRecord(c.arg, now, platform))

\* the three writes of call c start at position i of the sink
LineAt(i, c) ==
    /\ i + 2 <= Len(sink)
    /\ sink[i] = [call |-> c.id, part |-> "head", doc |-> DocOf(c)]
    /\ sink[i + 1] = [call |-> c.id, part |-> "tail", doc |-> DocOf(c)]
    /\ sink[i + 2] = [call |-> c.id, part |-> "nl", doc |-> DocOf(c)]

Written == {c \in returned : c.op = "log" /\ c.result = "written"}

\* C1: at most one thread is past the lock of Logger::log at any time, and
\* the writes of one call (body and newline) are contiguous in the sink: no
\* write of another call lies between two writes of the same call.
C1_SingleWriter ==
    /\ \A t, u \in Threads : Writing(t) /\ Writing(u) => t = u
    /\ \A i, j \in 1..Len(sink) :
          i < j /\ sink[i].call = sink[j].call =>
             \A k \in i..j : sink[k].call = sink[i].call

\* a thread waits for the lock while another has written a body
C1_Witness ==
    \E t, u \in Threads : pc[t] = "lock" /\ pc[u] = "nl" /\ Len(sink) >= 2

\* C2: once every thread's calls have returned (no write failed), the sink
\* is exactly one complete line per accepted call: head, tail and newline of
\* each written call, in this order, and nothing else.
C2_OneLinePerCall ==
    (\A t \in Threads : pc[t] = "idle") =>
        /\ Len(sink) = 3 * Cardinality(Written)
        /\ \A c \in Written :
              \E i \in 1..Len(sink) : i % 3 = 1 /\ LineAt(i, c)

\* two threads have each written a line and returned
C2_Witness ==
    /\ \A t \in Threads : pc[t] = "idle"
    /\ \E c, d \in Written : c.by # d.by

\* C3: a log() call whose record the filter rejects returns in the step it
\* is made, result "filtered", with the sink, the mutex, the store and every
\* thread's position unchanged; no call past the filter check carries a
\* rejected record.
C3_RejectedReturnsAtOnce ==
    /\ [](\A t \in Threads :
             cur[t].op = "log" => FilterMatches(logger.filter, cur[t].arg))
    /\ [][\A c \in Fresh :
             (c.op = "log" /\ ~FilterMatches(logger.filter, c.arg)) =>
                 /\ c.result = "filtered"
                 /\ UNCHANGED <<sink, mutex, store, rw, held, pc, cur>>]_vars

\* a rejected call has returned while another thread is in the middle of a line
C3_Witness ==
    \E c \in returned, u \in Threads :
        /\ c.op = "log" /\ c.result = "filtered"
        /\ pc[u] = "tail" /\ c.id > cur[u].id

\* C4: with the Logger of the default Builder, a returned ERROR call has
\* written its one line (or panicked on a failed write) and a returned call
\* of any other level was filtered and has nothing in the sink, whatever the
\* target; only ERROR calls get past the filter.
C4_DefaultOnlyError ==
    logger = BuilderBuild(BuilderDefault) =>
        /\ \A t \in Threads : cur[t].op = "log" => cur[t].arg.level = "ERROR"
        /\ \A c \in returned : c.op = "log" =>
              IF c.arg.level = "ERROR"
              THEN /\ c.result \in {"written", "panic"}
                   /\ c.result = "written" =>
                         Cardinality({i \in 1..Len(sink) :
                                         sink[i].call = c.id /\ sink[i].part = "nl"}) = 1
              ELSE /\ c.result = "filtered"
                   /\ \A i \in 1..Len(sink) : sink[i].call # c.id

\* the default Logger has written an ERROR call and filtered a WARN call
C4_Witness ==
    /\ logger = BuilderBuild(BuilderDefault)
    /\ \E c, d \in returned :
          /\ c.op = "log" /\ c.arg.level = "ERROR" /\ c.result = "written"
          /\ d.op = "log" /\ d.arg.level = "WARN" /\ d.result = "filtered"
          /\ c.arg.target # d.arg.target

\* C5: the document an accepted Logger::log call writes is its event with
\* the extra fields stored at that moment merged in.
C5_LoggerMergesExtraFields ==
    [][\A t \in Threads :
          (cur[t] = NoCall /\ cur'[t].op = "log") =>
              cur'[t].doc =
                 JObj(MergeExtraFields(store,
                         SerializeEvent(FromLogRecord(cur'[t].arg, now, platform)).m))]_vars

---------------------------------------------------------------------------
(* Properties of the extra-fields store *)

\* C6: a set_extra_fields call whose value does not serialize, or serializes
\* to something that is no JSON object, returns an error and leaves the
\* store as it was; a call that returns an error never changes the store.
C6_FailedSetKeepsStore ==
    [][\A c \in Fresh : c.op = "set" =>
          /\ (~ToValue(c.arg).ok \/ ~IsObj(ToValue(c.arg).v)) =>
                c.result \in {"InvalidJson", "NotObject"}
          /\ c.result # "Ok" => store' = store]_vars

\* a stored document has survived a NotObject and an InvalidJson failure
C6_Witness ==
    /\ store.some
    /\ \E c, d, e \in returned :
          /\ c.op = "set" /\ c.result = "Ok"
          /\ d.op = "set" /\ d.result = "NotObject" /\ d.id > c.id
          /\ e.op = "set" /\ e.result = "InvalidJson" /\ e.id > c.id

\* C7: a successful set_extra_fields(B) leaves the store holding exactly the
\* object B serializes to, whatever it held before, and a merge that
\* completes has merged exactly the store's current document into its event.
C7_SetReplacesWholesale ==
    /\ [][\A c \in Fresh : (c.op = "set" /\ c.result = "Ok") =>
             store' = Some(ToValue(c.arg).v.m)]_vars
    /\ [][\A t \in Threads :
             (pc[t] \in {"merge", "extend"} /\ pc'[t] = "write") =>
                 cur'[t].doc = MergeExtraFields(store, cur[t].base)]_vars

\* set(A), set(B), then an emission that has B's key "e" and not A's key "a"
C7_Witness ==
    \E c, d, e \in returned :
        /\ c.op = "set" /\ c.arg = DocA /\ c.result = "Ok"
        /\ d.op = "set" /\ d.arg = DocB /\ d.result = "Ok" /\ d.id > c.id
        /\ e.op = "format" /\ e.result = "Ok" /\ e.id > d.id
        /\ "e" \in DOMAIN e.out[1].doc.m
        /\ "a" \notin DOMAIN e.out[1].doc.m

\* C8: clear_extra_fields returns Ok and leaves the store absent; a merge
\* that finds the store absent returns its event unchanged; and an absent
\* store stays absent until a set_extra_fields call succeeds.
C8_ClearResetsStore ==
    /\ [][\A c \in Fresh : c.op = "clear" => c.result = "Ok" /\ store' = None]_vars
    /\ [][\A t \in Threads :
             (pc[t] = "merge" /\ pc'[t] # "merge" /\ store = None) =>
                 pc'[t] = "write" /\ cur'[t].doc = cur[t].base]_vars
    /\ [][(store = None /\ store' # None) =>
             \E c \in Fresh : c.op = "set" /\ c.result = "Ok"]_vars

\* set(A), clear, then an emission that is the bare event
C8_Witness ==
    \E c, d, e \in returned :
        /\ c.op = "set" /\ c.arg = DocA /\ c.result = "Ok"
        /\ d.op = "clear" /\ d.id > c.id
        /\ e.op = "format" /\ e.result = "Ok" /\ e.id > d.id
        /\ e.out[1].doc = JObj(e.base)

\* C9: the document of every formatted line, and of every merge that has
\* completed, is the event merged with one value the store has held: absent,
\* or the whole document of one successful set_extra_fields.
C9_LinesSeeOneStoredValue ==
    /\ \A c \in returned : (c.op = "format" /\ c.out # <<>>) =>
          \E h \in held : c.out[1].doc = JObj(MergeExtraFields(h, c.base))
    /\ \A t \in Threads : pc[t] = "write" =>
          \E h \in held : cur[t].doc = MergeExtraFields(h, cur[t].base)

\* a line carrying document A whose call overlapped a later successful set
C9_Witness ==
    \E c, d, e \in returned :
        /\ c.op = "set" /\ c.arg = DocA /\ c.result = "Ok"
        /\ e.op = "format" /\ e.result = "Ok" /\ e.id > c.id
        /\ d.op = "set" /\ d.arg = DocB /\ d.result = "Ok"
        /\ e.id < d.id /\ d.id <= e.at
        /\ e.out[1].doc = JObj(MergeExtraFields(Some(ToValue(DocA).v.m), e.base))

---------------------------------------------------------------------------
(* Properties of the registration *)

TryInits == {c \in returned : c.op \in {"Logger::try_init", "try_init"}}

\* C10: a registration returns Ok exactly when its logger is the installed
\* handler, so at most one ever succeeds and every attempt made once a
\* handler is installed returns Err; an installed handler is never replaced
\* or removed.
C10_RegisterOnce ==
    /\ [](\A c \in TryInits :
             c.result = "Ok" <=> (handler.some /\ handler.v.id = c.id))
    /\ [][handler.some => handler' = handler]_vars

\* a registration has failed after an earlier one succeeded
C10_Witness ==
    /\ handler.some
    /\ \E c, d \in TryInits :
          c.result = "Ok" /\ d.result = "Err" /\ d.id > c.id /\ d.op # c.op


\* C11: once a logger is installed and its own registration is over, no
\* step (in particular no failed registration) changes which records the
\* installed logger emits: the handler and the calls that reach it and pass
\* its filter stay the same.
C11_FailedInitChangesNothing ==
    [][(handler.some /\ \A t \in Threads : pc[t] # "env_set_max") =>
          /\ handler' = handler
          /\ \A r \in Records :
                Emits(handler', maxLevel', r) <=> Emits(handler, maxLevel, r)]_vars

\* the positions of the sink written by call c
ChunksOf(c) == {i \in 1..Len(sink) : sink[i].call = c.id}

\* C12: every call that returned as written has exactly one line in the
\* sink and nothing else (its event, then one newline); of two written calls
\* one thread made one after the other, the line of the earlier call comes
\* first; when no call is in flight the sink ends with a newline.
C12_LinesInCallOrder ==
    /\ \A c \in Written :
          /\ Cardinality(ChunksOf(c)) = 3
          /\ LineAt(CHOOSE i \in ChunksOf(c) : \A j \in ChunksOf(c) : i <= j, c)
    /\ \A c, d \in Written :
          c.by = d.by /\ c.id < d.id =>
             \A i \in ChunksOf(c), j \in ChunksOf(d) : i < j
    /\ ((\A t \in Threads : pc[t] = "idle") /\ sink # <<>>) =>
          sink[Len(sink)].part = "nl"

\* one thread has written two different records one after the other
C12_Witness ==
    /\ \A t \in Threads : pc[t] = "idle"
    /\ \E c, d \in Written : c.by = d.by /\ c.id < d.id /\ c.arg # d.arg

\* C13: a log() call that failed (its serialization or a write to the sink
\* failed) has left nothing in the sink: no body without its newline and no
\* fragment of a body.
C13_NoPartialLine ==
    \A c \in returned :
       c.op = "log" /\ c.result = "panic" =>
          \A i \in 1..Len(sink) : sink[i].call # c.id

\* C14: a failure is never swallowed and never retried. A log() call returns
\* as written only when its complete line is in the sink, and otherwise it
\* was filtered or it panicked; a format call returns Ok only when its
\* buffer holds the body and the newline, and otherwise it returns Err; no
\* call has written the same part of its line twice.
C14_FailureNotSwallowed ==
    /\ \A c \in returned :
          c.op = "log" =>
             /\ c.result \in {"written", "panic", "filtered"}
             /\ c.result = "written" <=> \E i \in 1..Len(sink) : LineAt(i, c)
    /\ \A c \in returned :
          c.op = "format" =>
             /\ c.result \in {"Ok", "Err"}
             /\ c.result = "Ok" <=>
                   /\ Len(c.out) = 2
                   /\ c.out[1].part = "body"
                   /\ c.out[2].part = "nl"
    /\ \A i, j \in 1..Len(sink) :
          sink[i].call = sink[j].call /\ sink[i].part = sink[j].part => i = j

\* a log() call has panicked on a failed write after its body was written,
\* and a format call has returned Err
C14_Witness ==
    /\ \E c \in returned :
          /\ c.op = "log" /\ c.result = "panic"
          /\ \E i \in 1..Len(sink) : sink[i].call = c.id /\ sink[i].part = "tail"
    /\ \E d \in returned : d.op = "format" /\ d.result = "Err"

\* the events built and serialized so far
Events == {c \in returned : c.op = "event"}

\* a key is in the map exactly when the option is Some, and then with its value
OptionalKey(m, k, o) ==
    /\ k \in DOMAIN m <=> o.some
    /\ o.some => m[k] = o.v

\* C15: in every serialized event the keys @timestamp, log.level, message,
\* ecs.version and log.origin (with file, rust and rust.target) are present
\* with the values of the record; each of file.line, file.name,
\* rust.module_path and rust.file_path is a key exactly when the record (for
\* file.name: the event) has it, with its exact value, and no value is null.
C15_OptionalFieldsOmitted ==
    \A c \in Events :
       LET m == c.doc.m
           origin == m["log.origin"].m
           file == origin["file"].m
           rust == origin["rust"].m
       IN  /\ DOMAIN m = {"@timestamp", "log.level", "message", "ecs.version",
                          "log.origin"}
           /\ m["@timestamp"] = JTime(c.at)
           /\ m["log.level"] = JStr(<<c.arg.level>>)
           /\ m["message"] = JStr(c.arg.args)
           /\ m["ecs.version"] = JStr(<<"1.12.1">>)
           /\ DOMAIN origin = {"file", "rust"}
           /\ DOMAIN file \subseteq {"line", "name"}
           /\ DOMAIN rust \subseteq {"target", "module_path", "file_path"}
           /\ "target" \in DOMAIN rust /\ rust["target"] = JStr(c.arg.target)
           /\ OptionalKey(file, "line", OptNum(c.arg.line))
           /\ OptionalKey(file, "name", OptStr(c.ev.log_origin.file.name))
           /\ ~c.arg.file.some => "name" \notin DOMAIN file
           /\ OptionalKey(rust, "module_path", OptStr(c.arg.module_path))
           /\ OptionalKey(rust, "file_path", OptStr(c.arg.file))
           /\ \A k \in DOMAIN file : file[k] # JNull
           /\ \A k \in DOMAIN rust : rust[k] # JNull

\* an event of a record with a file but no line and no module path
C15_Witness ==
    \E c \in Events :
       /\ c.arg.file.some /\ ~c.arg.line.some /\ ~c.arg.module_path.some
       /\ DOMAIN c.doc.m["log.origin"].m["file"].m = {"name"}
       /\ DOMAIN c.doc.m["log.origin"].m["rust"].m = {"target", "file_path"}

\* the symbols after the last '/' or '\' of a path
RECURSIVE FinalSegment(_)
FinalSegment(path) ==
    IF path = <<>> \/ path[Len(path)] \in {"/", "\\"} THEN <<>>
    ELSE Append(FinalSegment(SubSeq(path, 1, Len(path) - 1)), path[Len(path)])

\* C16: in every event of a record with a source file, file_path is the
\* path as supplied and file.name is its final segment, whether the path is
\* separated by '/' or by '\'; the serialized name is the final segment of
\* the serialized file_path.
C16_NameIsFinalSegment ==
    \A c \in Events :
       c.arg.file.some =>
          LET origin == c.doc.m["log.origin"].m
          IN  /\ c.ev.log_origin.rust.file_path = c.arg.file
              /\ c.ev.log_origin.file.name = Some(FinalSegment(c.arg.file.v))
              /\ origin["rust"].m["file_path"] = JStr(c.arg.file.v)
              /\ "name" \in DOMAIN origin["file"].m
              /\ origin["file"].m["name"] =
                    JStr(FinalSegment(origin["rust"].m["file_path"].s))

\* the merges made into a stored map
Merges == {c \in returned : c.op = "merge" /\ c.overlay.some}

BothObjects(a, b, k) == k \in DOMAIN a \cap DOMAIN b /\ IsObj(a[k]) /\ IsObj(b[k])

\* at every level the merge reaches, a key of both maps whose values are not
\* both objects has the value of b
RECURSIVE Precedence(_, _, _)
Precedence(a, b, r) ==
    \A k \in DOMAIN a \cap DOMAIN b :
       /\ k \in DOMAIN r
       /\ IF BothObjects(a, b, k)
          THEN IsObj(r[k]) /\ Precedence(a[k].m, b[k].m, r[k].m)
          ELSE r[k] = b[k]

\* C17: in every merge, a key present in the base and in the stored map
\* where one of the two values is not an object (a scalar, an array, null, or
\* values of different kinds) has exactly the stored map's value in the
\* result; an array is replaced by the stored array.
C17_OverlayWins ==
    \A c \in Merges : Precedence(c.base, c.overlay.v, c.out)

\* an array of the base met a different array of the stored map, and a
\* scalar of the base met an object
C17_Witness ==
    \E c \in Merges :
       /\ {"a", "b"} \subseteq DOMAIN c.base \cap DOMAIN c.overlay.v
       /\ c.base["a"].t = "arr" /\ c.overlay.v["a"].t = "arr"
       /\ c.base["a"] # c.overlay.v["a"]
       /\ c.base["b"].t = "num" /\ IsObj(c.overlay.v["b"])

\* r is the deep merge of b into a: the keys of both; a key of one map only
\* with that map's value; a key of both with the deep merge of the two
\* values when both are objects, and with the value of b otherwise
RECURSIVE IsDeepMerge(_, _, _)
IsDeepMerge(a, b, r) ==
    /\ DOMAIN r = DOMAIN a \cup DOMAIN b
    /\ \A k \in DOMAIN r :
          IF k \notin DOMAIN b THEN r[k] = a[k]
          ELSE IF k \notin DOMAIN a THEN r[k] = b[k]
          ELSE IF BothObjects(a, b, k)
               THEN IsObj(r[k]) /\ IsDeepMerge(a[k].m, b[k].m, r[k].m)
               ELSE r[k] = b[k]

\* C18: in every merge, a key whose value is an object in the base and in
\* the stored map has in the result the deep merge of the two objects, by
\* the same rule at every depth, and not the stored object as it is.
C18_ObjectsMergeRecursively ==
    \A c \in Merges :
       \A k \in DOMAIN c.base \cap DOMAIN c.overlay.v :
          BothObjects(c.base, c.overlay.v, k) =>
             /\ IsObj(c.out[k])
             /\ IsDeepMerge(c.base[k].m, c.overlay.v[k].m, c.out[k].m)

\* objects met at two depths, and the inner object of the base has a key the
\* stored one lacks: the result differs from the stored object
C18_Witness ==
    \E c \in Merges :
       /\ BothObjects(c.base, c.overlay.v, "b")
       /\ BothObjects(c.base["b"].m, c.overlay.v["b"].m, "c")
       /\ DOMAIN c.base["b"].m["c"].m \ DOMAIN c.overlay.v["b"].m["c"].m # {}
       /\ c.out["b"] # c.overlay.v["b"]

\* at every level the merge reaches, r has the keys of both maps and the
\* keys of a alone keep their values
RECURSIVE Frame(_, _, _)
Frame(a, b, r) ==
    /\ DOMAIN r = DOMAIN a \cup DOMAIN b
    /\ \A k \in DOMAIN a \ DOMAIN b : r[k] = a[k]
    /\ \A k \in DOMAIN a \cap DOMAIN b :
          BothObjects(a, b, k) =>
             IsObj(r[k]) /\ Frame(a[k].m, b[k].m, r[k].m)

\* C19: in every merge, at every level the recursion reaches, a key of the
\* base that the stored map lacks keeps its value, and the keys of the
\* result are those of the base together with those of the stored map.
C19_BaseOnlyKeysKept ==
    \A c \in Merges : Frame(c.base, c.overlay.v, c.out)

\* the base has a key of its own at the top and inside a merged object
C19_Witness ==
    \E c \in Merges :
       /\ DOMAIN c.base \ DOMAIN c.overlay.v # {}
       /\ DOMAIN c.overlay.v \ DOMAIN c.base # {}
       /\ \E k \in DOMAIN c.base :
             /\ BothObjects(c.base, c.overlay.v, k)
             /\ DOMAIN c.base[k].m \ DOMAIN c.overlay.v[k].m # {}

\* C20: merging the stored map into a document that is already the result
\* of merging it changes nothing.
C20_MergeIdempotent ==
    \A c \in returned : c.op = "merge" => c.again = c.out

\* a merge that changed the base, met an array with an array, and gave
\* neither the base nor the stored map
C20_Witness ==
    \E c \in Merges :
       /\ c.out # c.base
       /\ c.out # c.overlay.v
       /\ \E k \in DOMAIN c.base \cap DOMAIN c.overlay.v :
             c.base[k].t = "arr" /\ c.overlay.v[k].t = "arr"

\* C21: building an event is a function of the record alone, the clock is
\* not read: building again from the record of an event already built gives
\* the identical event, whenever the second build is made.
C21_BuildIsPure ==
    \A c \in Events : FromLogRecord(c.arg, now, platform) = c.ev

\* C22: a log() call that panicked has left the mutex poisoned, and from
\* then on the mutex stays poisoned, nothing more is written to the sink, and
\* every log() call that returns was filtered or panicked.
C22_PoisonedForever ==
    /\ []((\E c \in returned : c.op = "log" /\ c.result = "panic") =>
             mutex.poisoned)
    /\ [][mutex.poisoned =>
             /\ mutex'.poisoned
             /\ sink' = sink
             /\ \A c \in Fresh :
                   c.op = "log" => c.result \in {"panic", "filtered"}]_vars

\* a call failed after it had written, and a later call of another thread
\* panicked without writing anything
C22_Witness ==
    /\ mutex.poisoned
    /\ \E c, d \in returned :
          /\ c.op = "log" /\ c.result = "panic"
          /\ d.op = "log" /\ d.result = "panic"
          /\ c.id < d.id
          /\ \E i \in 1..Len(sink) : sink[i].call = c.id
          /\ \A i \in 1..Len(sink) : sink[i].call # d.id

StandardKeys == {"@timestamp", "log.level", "message", "ecs.version"}

\* the document of line c is the event overridden by the stored value h
Overridden(c, h) ==
    LET doc == c.out[1].doc.m
    IN  IF ~h.some THEN doc = c.base
        ELSE /\ DOMAIN doc = DOMAIN c.base \cup DOMAIN h.v
             /\ \A k \in StandardKeys \cap DOMAIN h.v : doc[k] = h.v[k]
             /\ ("log.origin" \in DOMAIN h.v /\ IsObj(h.v["log.origin"])) =>
                   /\ IsObj(doc["log.origin"])
                   /\ IsDeepMerge(c.base["log.origin"].m, h.v["log.origin"].m,
                                  doc["log.origin"].m)

\* C23: every formatted line is the event overridden by one value the store
\* has held: each of @timestamp, log.level, message and ecs.version that the
\* stored document has carries the stored value, not the event's, and an
\* object stored under log.origin is deep-merged into the event's origin.
C23_ExtraFieldsOverrideStandard ==
    \A c \in returned :
       (c.op = "format" /\ c.out # <<>>) => \E h \in held : Overridden(c, h)

\* a line whose message and level are the stored ones, and whose origin has
\* the stored line number next to the event's own file name
C23_Witness ==
    \E c \in returned :
       /\ c.op = "format" /\ c.result = "Ok"
       /\ c.out[1].doc.m["message"] # c.base["message"]
       /\ c.out[1].doc.m["log.level"] = JStr(<<"LOUD">>)
       /\ c.out[1].doc.m["log.origin"].m["file"].m["line"] = JNum(7)
       /\ c.out[1].doc.m["log.origin"].m["file"].m["name"] =
             c.base["log.origin"].m["file"].m["name"]

=============================================================================
